---- MODULE Spec2Model ----
(***************************************************************************)
(* ParvusServer: a development HTTP server with a middleware registry, a   *)
(* sequential dispatch loop, a static file resolver and a live-reload      *)
(* channel.  Strings that the code inspects character by character (route  *)
(* specs, request urls) are sequences of one-character strings.            *)
(***************************************************************************)
EXTENDS Integers, Sequences, FiniteSets, TLC

\* ---------------------------------------------------------------- bounds
MaxMiddlewares == 2     \* registrations made by the hosting application
MaxStarts == 2          \* calls of startAsync that reach createServer
MaxClients == 2         \* browser clients of the live-reload channel
MaxInFlight == 2        \* requests being dispatched at the same time
MaxFlags == 3           \* flag letters written after a delimited route spec

Clients == 1..MaxClients
Requests == 1..MaxInFlight

\* ---------------------------------------------------------------- inputs
\* Route specs handed to addMiddleware.
Star == <<"*">>
Routes ==
    { Star,
      <<"/", "a">>,
      <<"/", "a", "/", "g">>,
      <<"~", "/", "a", "~", "i", "y", "i">>,
      <<"/", "(", "/">> }

\* Delimited route specs /a/<flags> with every flag string up to MaxFlags.
FlagLetters == {"g", "i"}
FlagSeqs == UNION { [1..n -> FlagLetters] : n \in 0..MaxFlags }
Flagged(f) == <<"/", "a", "/">> \o f

\* Request urls (req.url).
Urls ==
    { <<"/">>,
      <<"/", "a">>,
      <<"/", "A", "/", "a">>,
      <<"/", "d">>,
      <<"/", "/">> }

\* ------------------------------------------------------- route compilation
Delims == {"/", "~", "@", ";", "%", "#", "'"}
FlagChars == {"g", "i", "m", "s", "u", "y"}

IsFlags(s) == \A k \in 1..Len(s) : s[k] \in FlagChars

From(s, k) == SubSeq(s, k, Len(s))

\* Positions of s that close a delimited spec: s[j] repeats the opening
\* delimiter and only flag letters follow.
Closers(s) ==
    IF Len(s) >= 2 /\ s[1] \in Delims
    THEN { j \in 2..Len(s) : s[j] = s[1] /\ IsFlags(From(s, j + 1)) }
    ELSE {}

Min(S) == CHOOSE x \in S : \A y \in S : x <= y

\* The elements of s at the positions in P, in order.
RECURSIVE Pick(_, _, _)
Pick(s, P, k) ==
    IF k > Len(s) THEN <<>>
    ELSE (IF k \in P THEN <<s[k]>> ELSE <<>>) \o Pick(s, P, k + 1)

\* DedupFlags keeping the last occurrence of a letter (lastIndexOf).
DedupFlagsKeepLast(f) ==
    Pick(f, { p \in 1..Len(f) : \A q \in (p + 1)..Len(f) : f[q] # f[p] }, 1)

\* split('').filter((i, p, k) => k.indexOf(i) === p).join('')
DedupFlags(f) ==
    Pick(f, { p \in 1..Len(f) : \A q \in 1..(p - 1) : f[q] # f[p] }, 1)

\* new RegExp(body, flags) throws a SyntaxError on an unterminated group
\* and on a flag given twice.
RECURSIVE Depth(_, _)
Depth(b, k) ==
    IF k = 0 THEN 0
    ELSE Depth(b, k - 1) + (IF b[k] = "(" THEN 1 ELSE IF b[k] = ")" THEN -1 ELSE 0)

ValidBody(b) == Depth(b, Len(b)) = 0 /\ \A k \in 1..Len(b) : Depth(b, k) >= 0

ValidFlags(f) == \A p, q \in 1..Len(f) : f[p] = f[q] => p = q

RegExp(body, flags) ==
    IF ValidBody(body) /\ ValidFlags(flags)
    THEN [ok |-> TRUE, any |-> FALSE, body |-> body, flags |-> flags, lastIndex |-> 0]
    ELSE [ok |-> FALSE, any |-> FALSE, body |-> body, flags |-> flags, lastIndex |-> 0]

\* /^([\/~@;%#'])(.*?)\1([gimsuy]*)$/ : the lazy body ends at the first closer.
stringToRegex(s) ==
    IF Closers(s) # {}
    THEN LET j == Min(Closers(s))
         IN RegExp(SubSeq(s, 2, j - 1), DedupFlags(From(s, j + 1)))
    ELSE RegExp(s, <<>>)

\* let pattern = /[\s\S]*/; if (route !== '*') pattern = stringToRegex(route);
AnyPattern == [ok |-> TRUE, any |-> TRUE, body |-> <<>>, flags |-> <<>>, lastIndex |-> 0]

Compile(route) == IF route = Star THEN AnyPattern ELSE stringToRegex(route)

\* ------------------------------------------------------------ RegExp.test
HasFlag(p, f) == \E k \in 1..Len(p.flags) : p.flags[k] = f

Lower(c) == IF c = "A" THEN "a" ELSE IF c = "D" THEN "d" ELSE c

SameChar(p, x, y) == IF HasFlag(p, "i") THEN Lower(x) = Lower(y) ELSE x = y

\* The literal body of p occurs in s starting at offset k (0-based).
MatchAt(p, s, k) ==
    /\ k + Len(p.body) <= Len(s)
    /\ \A j \in 1..Len(p.body) : SameChar(p, p.body[j], s[k + j])

\* pattern.test(s): the result and the lastIndex it leaves on the pattern.
\* A pattern with the g or y flag starts at lastIndex and stores where the
\* match ended (0 when there was none); y matches at lastIndex only.
Test(p, s) ==
    IF p.any THEN [ok |-> TRUE, lastIndex |-> p.lastIndex]
    ELSE LET stateful == HasFlag(p, "g") \/ HasFlag(p, "y")
             from == IF stateful THEN p.lastIndex ELSE 0
             at == IF HasFlag(p, "y")
                   THEN { k \in {from} : MatchAt(p, s, k) }
                   ELSE { k \in from..Len(s) : MatchAt(p, s, k) }
         IN IF at = {}
            THEN [ok |-> FALSE, lastIndex |-> 0]
            ELSE [ok |-> TRUE,
                  lastIndex |-> IF stateful THEN Min(at) + Len(p.body) ELSE p.lastIndex]

\* ------------------------------------------------------------------ state
VARIABLES
    server,           \* this.server: "undefined", "listening" or "closed"
    io,               \* this.io: 0 when undefined, else the number of the Socket server
    connectedBefore,  \* this.connectedBefore
    config,           \* the argument of the constructor
    host,             \* this.host
    port,             \* this.port, 0 when undefined
    directory,        \* this.directory
    mimeTypes,        \* this.mimeTypes: [defined, list]
    middlewares,      \* this.middlewares: sequence of [pattern, middleware]
    clients,          \* per browser client: the Socket server it is connected to, 0 if none
    lastEmit,         \* the most recent io.emit('refresh'): who called, who got how many
    connectionEmits,  \* number of refreshBrowser calls made by the connection handler
    everConnected,    \* some client connection has happened
    thrown,           \* exception raised by the latest call of the hosting application
    req               \* per request slot: the state of the request callback

vars == <<server, io, connectedBefore, config, host, port, directory, mimeTypes, middlewares, clients,
          lastEmit, connectionEmits, everConnected, thrown, req>>

reloadVars == <<clients, lastEmit, connectionEmits, everConnected, connectedBefore>>

\* ------------------------------------------------------------ construction
\* mime-types.json, read by fetchMimetypes.
BaseMimeTypes ==
    << [type |-> "text/html", name |-> "html", extensions |-> <<"html">>],
       [type |-> "text/css", name |-> "css", extensions |-> <<"css">>] >>

\* new ParvusServer() and new ParvusServer({...}).  The entries of
\* config.middlewares are registered by addMiddleware calls, here as the
\* Register steps that follow construction.
Configs ==
    { [present |-> FALSE, additionalMimeTypes |-> <<>>],
      [present |-> TRUE, additionalMimeTypes |-> <<>>],
      [present |-> TRUE,
       additionalMimeTypes |->
           << [type |-> "text/css", name |-> "sass", extensions |-> <<"scss">>],
              [type |-> "font/woff", name |-> "woff", extensions |-> <<"woff">>] >>] }

\* config.port || 62295
DefaultPort == 62295

\* The continuation object of ./middleware: generateNext() makes one whose
\* status is false, next() sets the status, next.reset() clears it.
generateNext == FALSE

nextCalled(status) == TRUE

nextReset(status) == FALSE

NoResponse ==
    [headersSent |-> FALSE, ended |-> FALSE, ends |-> 0, statusCode |-> 200,
     contentType |-> "none", body |-> "none"]

IdleRequest ==
    [pc |-> "idle", url |-> <<>>, matching |-> <<>>, i |-> 0, next |-> generateNext,
     res |-> NoResponse, trace |-> <<>>]

NoEmit == [by |-> "none", count |-> [c \in Clients |-> 0], connected |-> {}]

Init ==
    \E cfg \in Configs :
        /\ config = cfg
        /\ server = "undefined"
        /\ io = 0
        /\ connectedBefore = FALSE
        /\ host = IF cfg.present THEN "localhost" ELSE "undefined"
        /\ port = IF cfg.present THEN DefaultPort ELSE 0
        /\ directory = IF cfg.present THEN "site" ELSE "undefined"
        /\ mimeTypes = [defined |-> cfg.present, list |-> cfg.additionalMimeTypes]
        /\ middlewares = <<>>
        /\ clients = [c \in Clients |-> 0]
        /\ lastEmit = NoEmit
        /\ connectionEmits = 0
        /\ everConnected = FALSE
        /\ thrown = "none"
        /\ req = [r \in Requests |-> IdleRequest]

\* -------------------------------------------------------------- registry
\* addMiddleware that pushes the entry before the pattern is compiled.
addMiddlewarePushFirst(route) ==
    /\ Len(middlewares) < MaxMiddlewares
    /\ middlewares' = Append(middlewares,
          [pattern |-> Compile(route), middleware |-> Len(middlewares) + 1,
           route |-> route])
    /\ thrown' = IF Compile(route).ok THEN "none" ELSE "SyntaxError"
    /\ UNCHANGED <<server, io, config, host, port, directory, mimeTypes, req>>
    /\ UNCHANGED reloadVars

\* addMiddleware(middleware, route): the handler registered by the k-th
\* successful call is named k.  An entry also records the route spec it
\* was compiled from.
addMiddleware(route) ==
    /\ Len(middlewares) < MaxMiddlewares
    /\ LET pattern == Compile(route)
       IN IF pattern.ok
          THEN /\ middlewares' = Append(middlewares,
                     [pattern |-> pattern, middleware |-> Len(middlewares) + 1,
                      route |-> route])
               /\ thrown' = "none"
          ELSE /\ middlewares' = middlewares
               /\ thrown' = "SyntaxError"
    /\ UNCHANGED <<server, io, config, host, port, directory, mimeTypes, req>>
    /\ UNCHANGED reloadVars

\* ------------------------------------------------------------- lifecycle
\* mimeTypes.map(item1 => ...find(item => item.type === item1.type)...)
FirstOfType(list, type) ==
    LET hits == { k \in 1..Len(list) : list[k].type = type }
    IN IF hits = {} THEN 0 ELSE Min(hits)

mergedMimeTypes(base) ==
    [ k \in 1..Len(base) |->
        LET j == FirstOfType(mimeTypes.list, base[k].type)
        IN IF j # 0
           THEN [base[k] EXCEPT !.extensions = @ \o mimeTypes.list[j].extensions]
           ELSE base[k] ]

\* startAsync(): merge the MIME table, then createServer().  A server that
\* is listening is not started again (listen would fail on the bound port).
startAsync ==
    /\ server # "listening"
    /\ io < MaxStarts
    /\ IF mimeTypes.defined
       THEN /\ mimeTypes' = [defined |-> TRUE, list |-> mergedMimeTypes(BaseMimeTypes)]
            /\ server' = "listening"
            /\ io' = io + 1
            /\ thrown' = "none"
       ELSE /\ UNCHANGED <<mimeTypes, server, io>>
            /\ thrown' = "TypeError"
    /\ UNCHANGED <<config, host, port, directory, middlewares, req>>
    /\ UNCHANGED reloadVars

\* stop(): this.server?.close() closes the listening socket only.
stop ==
    /\ server' = IF server = "undefined" THEN "undefined" ELSE "closed"
    /\ thrown' = "none"
    /\ UNCHANGED <<io, config, host, port, directory, mimeTypes, middlewares, req>>
    /\ UNCHANGED reloadVars

\* ---------------------------------------------------------- live reload
\* this.io.emit('refresh'): one event to every socket of this.io.
Emit(by, conn) ==
    [by |-> by,
     count |-> [c \in Clients |-> IF conn[c] = io THEN 1 ELSE 0],
     connected |-> { c \in Clients : conn[c] # 0 }]

\* refreshBrowser() called by the hosting application.
refreshBrowser ==
    /\ IF io = 0
       THEN /\ thrown' = "TypeError"
            /\ lastEmit' = [NoEmit EXCEPT !.by = "failed"]
       ELSE /\ thrown' = "none"
            /\ lastEmit' = Emit("application", clients)
    /\ UNCHANGED <<server, io, config, host, port, directory, mimeTypes, middlewares, req>>
    /\ UNCHANGED <<clients, connectionEmits, everConnected, connectedBefore>>

\* connection without this.connectedBefore = true.
connectionForgetful(c) ==
    /\ server = "listening"
    /\ clients[c] = 0
    /\ clients' = [clients EXCEPT ![c] = io]
    /\ everConnected' = TRUE
    /\ IF ~connectedBefore
       THEN /\ lastEmit' = Emit("connection", clients')
            /\ connectionEmits' = connectionEmits + 1
            /\ connectedBefore' = connectedBefore
       ELSE UNCHANGED <<lastEmit, connectionEmits, connectedBefore>>
    /\ UNCHANGED <<server, io, config, host, port, directory, mimeTypes, middlewares, thrown, req>>

\* io.on('connection', ...): a client connects to the listening server.
connection(c) ==
    /\ server = "listening"
    /\ clients[c] = 0
    /\ clients' = [clients EXCEPT ![c] = io]
    /\ everConnected' = TRUE
    /\ IF ~connectedBefore
       THEN /\ lastEmit' = Emit("connection", clients')
            /\ connectionEmits' = connectionEmits + 1
            /\ connectedBefore' = TRUE
       ELSE UNCHANGED <<lastEmit, connectionEmits, connectedBefore>>
    /\ UNCHANGED <<server, io, config, host, port, directory, mimeTypes, middlewares, thrown, req>>

\* A client goes away (socket 'disconnect').
disconnect(c) ==
    /\ clients[c] # 0
    /\ clients' = [clients EXCEPT ![c] = 0]
    /\ UNCHANGED <<server, io, config, host, port, directory, mimeTypes, middlewares, thrown, req>>
    /\ UNCHANGED <<lastEmit, connectionEmits, everConnected, connectedBefore>>

\* ------------------------------------------------------------ file system
\* new URL(req.url, 'https://z') throws on a url whose authority is empty.
HostEnd(u) ==
    LET stops == { k \in 3..Len(u) : u[k] = "/" }
    IN IF stops = {} THEN Len(u) + 1 ELSE Min(stops)

IsNetworkPath(u) == Len(u) >= 2 /\ u[1] = "/" /\ u[2] = "/"

UrlParses(u) == IsNetworkPath(u) => HostEnd(u) > 3

\* new URL(req.url, 'https://z').pathname, then '/' -> '/index.html'
Pathname(u) ==
    LET path == IF IsNetworkPath(u)
                THEN (IF HostEnd(u) <= Len(u) THEN From(u, HostEnd(u)) ELSE <<"/">>)
                ELSE u
    IN IF path[Len(path)] = "/" THEN Append(path, "index.html") ELSE path

\* What lies under the root directory at a path: a regular file, a directory
\* or nothing.
FileKind(path) ==
    CASE path = <<"/", "index.html">> -> "file"
      [] path = <<"/", "a">> -> "file"
      [] path = <<"/", "d">> -> "directory"
      [] OTHER -> "missing"

\* path.extname(url).replace('.', '')
Extname(path) == IF path[Len(path)] = "index.html" THEN "html" ELSE ""

\* this.mimeTypes.find(x => x.extensions.includes(extension))?.type, with
\* the text/html default.
MimeOf(extension) ==
    LET hits == { k \in 1..Len(mimeTypes.list) :
                    \E e \in 1..Len(mimeTypes.list[k].extensions) :
                        mimeTypes.list[k].extensions[e] = extension }
    IN IF hits = {} THEN "text/html" ELSE mimeTypes.list[Min(hits)].type

\* ---------------------------------------------------------------- dispatch
\* What one call of a middleware does: write and end the response or not,
\* call next() or not, and throw before returning its promise, or return a
\* promise that is fulfilled or rejected.
Behaviours == [wrote : BOOLEAN, called : BOOLEAN, out : {"complete", "reject", "throw"}]

Pending == [wrote |-> FALSE, called |-> FALSE, out |-> "pending"]

\* A middleware whose promise never settles: the await of line 97 never
\* returns.
Hang == [wrote |-> FALSE, called |-> FALSE, out |-> "hang"]

Event(ev, h, b) == [ev |-> ev, h |-> h, wrote |-> b.wrote, called |-> b.called, out |-> b.out]

\* res.setHeader / res.writeHead / res.end by a middleware.
Written(res, wrote) ==
    IF wrote
    THEN [headersSent |-> TRUE, ended |-> TRUE, ends |-> res.ends + 1, statusCode |-> 200,
          contentType |-> "text/html", body |-> "middleware"]
    ELSE res

\* The catch block of defaultHandler: setHeader on a response whose headers
\* are sent throws again, out of defaultHandler and out of the callback.
ErrorPage(rec) ==
    IF rec.res.headersSent
    THEN [rec EXCEPT !.pc = "rejected"]
    ELSE [rec EXCEPT !.pc = "done",
                     !.res = [headersSent |-> TRUE, ended |-> TRUE,
                              ends |-> rec.res.ends + 1, statusCode |-> 500,
                              contentType |-> "text/html", body |-> "error"]]

\* The 404 branch of defaultHandler, inside the try.
NotFoundPage(rec) ==
    IF rec.res.headersSent
    THEN ErrorPage(rec)
    ELSE [rec EXCEPT !.pc = "done",
                     !.res = [headersSent |-> TRUE, ended |-> TRUE,
                              ends |-> rec.res.ends + 1, statusCode |-> 404,
                              contentType |-> "text/html", body |-> "notfound"]]

\* ParvusServer.socketInjection(html) returns: document.querySelector('body')
\* is null for a document without a body element (the file "a" holds a
\* frameset document), and body.appendChild then throws.
Injectable(path) == path # <<"/", "a">>

\* complete(input): setHeader on a response whose headers are sent throws.
Send(rec, mimeType, input) ==
    [rec EXCEPT !.pc = "done",
                !.res = [headersSent |-> TRUE, ended |-> TRUE,
                         ends |-> rec.res.ends + 1, statusCode |-> 200,
                         contentType |-> mimeType, body |-> input]]

\* The code after the file was read: an html file gets the socket scripts
\* injected and is completed inside the inner try; when either step throws
\* the empty catch goes on to complete(file), whose exception reaches the
\* catch block of defaultHandler.
Complete(rec) ==
    LET mimeType == MimeOf(Extname(Pathname(rec.url)))
    IN IF mimeType = "text/html" /\ Injectable(Pathname(rec.url)) /\ ~rec.res.headersSent
       THEN Send(rec, mimeType, "injected")
       ELSE IF rec.res.headersSent
            THEN ErrorPage(rec)
            ELSE Send(rec, mimeType, "file")

\* await this.defaultHandler(req, res) up to its first await (fs.stat).
defaultHandler(rec) ==
    LET entered == [rec EXCEPT !.trace = Append(@, Event("resolver", 0, Pending))]
    IN IF UrlParses(rec.url)
       THEN [entered EXCEPT !.pc = "stat"]
       ELSE [entered EXCEPT !.pc = "rejected"]

\* AfterLoop with the condition left out: defaultHandler always runs.
AfterLoopUnconditional(rec) == defaultHandler(rec)

\* AfterLoop without the matching.length === 0 test.
AfterLoopStatusOnly(rec) ==
    IF rec.next THEN defaultHandler(rec) ELSE [rec EXCEPT !.pc = "done"]

\* if (matching.length === 0 || next.status()) await this.defaultHandler(req, res)
AfterLoop(rec) ==
    IF Len(rec.matching) = 0 \/ rec.next
    THEN defaultHandler(rec)
    ELSE [rec EXCEPT !.pc = "done"]

\* Iterate without the await: every remaining handler is invoked at once.
IterateNoAwait(rec, b) ==
    IF rec.i < Len(rec.matching)
    THEN LET h == rec.matching[rec.i + 1]
             rest == [k \in 1..(Len(rec.matching) - rec.i) |->
                        Event("invoke", rec.matching[rec.i + k], Pending)]
             invoked == [rec EXCEPT !.i = @ + 1, !.next = nextReset(@),
                                    !.trace = Append(@, Event("invoke", h, Pending))]
         IN IF b.out = "throw"
            THEN [invoked EXCEPT !.pc = "rejected",
                                 !.next = IF b.called THEN nextCalled(@) ELSE @,
                                 !.res = Written(@, b.wrote),
                                 !.trace = Append(@, Event("settle", h, b))]
            ELSE [rec EXCEPT !.pc = "handler", !.i = Len(rec.matching),
                             !.next = nextReset(@), !.trace = @ \o rest]
    ELSE AfterLoop(rec)

\* One pass of the loop head: next.reset(), then middleware(req, res, next)
\* runs until it returns its promise, or throws out of the callback; b is
\* what the middleware does before it returns.
Iterate(rec, b) ==
    IF rec.i < Len(rec.matching)
    THEN LET h == rec.matching[rec.i + 1]
             invoked == [rec EXCEPT !.i = @ + 1, !.next = nextReset(@),
                                    !.trace = Append(@, Event("invoke", h, Pending))]
         IN IF b.out = "throw"
            THEN [invoked EXCEPT !.pc = "rejected",
                                 !.next = IF b.called THEN nextCalled(@) ELSE @,
                                 !.res = Written(@, b.wrote),
                                 !.trace = Append(@, Event("settle", h, b))]
            ELSE [invoked EXCEPT !.pc = IF b.out = "hang" THEN "hung" ELSE "handler"]
    ELSE AfterLoop(rec)

\* middlewares.filter(x => x.pattern.test(req.url)).map(x => x.middleware)
Matching(url) ==
    LET hit == SelectSeq(middlewares, LAMBDA x : Test(x.pattern, url).ok)
    IN [k \in 1..Len(hit) |-> hit[k].middleware]

\* What a middleware may do before it returns its promise.
InvokeBehaviours(res) ==
    { b \in Behaviours : b.out = "throw" /\ (b.wrote => ~res.headersSent) } \cup {Pending, Hang}

\* The request callback from the arrival of a request to its first await.
request(r, url, b) ==
    /\ server = "listening"
    /\ req[r].pc = "idle"
    /\ b \in InvokeBehaviours(NoResponse)
    /\ middlewares' =
         [k \in 1..Len(middlewares) |->
            [middlewares[k] EXCEPT
                !.pattern.lastIndex = Test(middlewares[k].pattern, url).lastIndex]]
    /\ req' = [req EXCEPT ![r] =
                 Iterate([IdleRequest EXCEPT !.url = url, !.matching = Matching(url)], b)]
    /\ UNCHANGED <<server, io, config, host, port, directory, mimeTypes, thrown>>
    /\ UNCHANGED reloadVars

\* settle with one continuation object for all requests.
settleShared(r, b, c) ==
    /\ req[r].pc = "handler"
    /\ b \in Behaviours
    /\ b.out # "throw"
    /\ b.wrote => ~req[r].res.headersSent
    /\ LET rec == req[r]
           h == rec.matching[rec.i]
           settled == [rec EXCEPT !.next = IF b.called THEN nextCalled(@) ELSE @,
                                  !.res = Written(@, b.wrote),
                                  !.trace = Append(@, Event("settle", h, b))]
       IN /\ c \in InvokeBehaviours(settled.res)
          /\ req' = [q \in Requests |->
                       IF q = r
                       THEN (IF settled.next THEN Iterate(settled, c) ELSE AfterLoop(settled))
                       ELSE [req[q] EXCEPT !.next = settled.next]]
    /\ UNCHANGED <<server, io, config, host, port, directory, mimeTypes, middlewares, thrown>>
    /\ UNCHANGED reloadVars

\* The awaited middleware promise settles as b says; .catch(console.error)
\* turns a rejection into a fulfilment.  The callback goes on to its next
\* await: break on next.status() === false, else the next middleware (which
\* does c before returning), else the check after the loop.
settle(r, b, c) ==
    /\ req[r].pc = "handler"
    /\ b \in Behaviours
    /\ b.out # "throw"
    /\ b.wrote => ~req[r].res.headersSent
    /\ LET rec == req[r]
           h == rec.matching[rec.i]
           settled == [rec EXCEPT !.next = IF b.called THEN nextCalled(@) ELSE @,
                                  !.res = Written(@, b.wrote),
                                  !.trace = Append(@, Event("settle", h, b))]
       IN /\ c \in InvokeBehaviours(settled.res)
          /\ req' = [req EXCEPT ![r] =
                       IF settled.next THEN Iterate(settled, c) ELSE AfterLoop(settled)]
    /\ UNCHANGED <<server, io, config, host, port, directory, mimeTypes, middlewares, thrown>>
    /\ UNCHANGED reloadVars

\* fs.stat settles: a rejection is swallowed and leaves fileExists null.
statSettled(r) ==
    /\ req[r].pc = "stat"
    /\ req' = [req EXCEPT ![r] =
                 IF FileKind(Pathname(req[r].url)) = "missing"
                 THEN NotFoundPage(req[r])
                 ELSE [req[r] EXCEPT !.pc = "read"]]
    /\ UNCHANGED <<server, io, config, host, port, directory, mimeTypes, middlewares, thrown>>
    /\ UNCHANGED reloadVars

\* fs.readFile settles: reading a directory rejects (EISDIR) into the catch
\* block; a file is completed.
readSettled(r) ==
    /\ req[r].pc = "read"
    /\ req' = [req EXCEPT ![r] =
                 IF FileKind(Pathname(req[r].url)) = "file"
                 THEN Complete(req[r])
                 ELSE ErrorPage(req[r])]
    /\ UNCHANGED <<server, io, config, host, port, directory, mimeTypes, middlewares, thrown>>
    /\ UNCHANGED reloadVars

\* The callback of a request is over (returned or rejected); its slot takes
\* the next request.
retire(r) ==
    /\ req[r].pc \in {"done", "rejected"}
    /\ req' = [req EXCEPT ![r] = IdleRequest]
    /\ UNCHANGED <<server, io, config, host, port, directory, mimeTypes, middlewares, thrown>>
    /\ UNCHANGED reloadVars

\* --------------------------------------------------------- specifications
Register == \E route \in Routes : addMiddleware(route)
Arrive(R) ==
    \E r \in R, url \in Urls, b \in Behaviours \cup {Pending, Hang} : request(r, url, b)
Settle ==
    \E r \in Requests, b \in Behaviours, c \in Behaviours \cup {Pending, Hang} : settle(r, b, c)
StatSettled == \E r \in Requests : statSettled(r)
ReadSettled == \E r \in Requests : readSettled(r)
Retire == \E r \in Requests : retire(r)
Connect == \E c \in Clients : connection(c)
Disconnect == \E c \in Clients : disconnect(c)

RegisterFlagged == \E f \in FlagSeqs : addMiddleware(Flagged(f))

\* Requests in flight at the same time, against a registry of catch-all
\* routes that grows meanwhile; a middleware completes having either sent
\* the response or called next(), or never completes.
ConcurrentUrls == { <<"/">>, <<"/", "/">> }

Calm == { b \in Behaviours : b.out = "complete" /\ b.wrote # b.called }

RegisterStar == addMiddleware(Star)
ArriveConcurrent ==
    \E r \in Requests, url \in ConcurrentUrls, b \in {Pending, Hang} : request(r, url, b)
SettleCalm(r) == \E b \in Calm, c \in {Pending, Hang} : settle(r, b, c)

NextConcurrent ==
    \/ RegisterStar
    \/ startAsync
    \/ ArriveConcurrent
    \/ \E r \in Requests : SettleCalm(r)
    \/ StatSettled
    \/ ReadSettled

\* A promise that is not the one of a hung middleware settles, and the
\* event loop then resumes the callback that awaits it.
Resumes ==
    \A r \in Requests :
        /\ WF_vars(SettleCalm(r))
        /\ WF_vars(statSettled(r))
        /\ WF_vars(readSettled(r))

SpecConcurrent == Init /\ [][NextConcurrent]_vars /\ Resumes

\* Registrations of delimited route specs with flags.
NextCompile == RegisterFlagged

SpecCompile == Init /\ [][NextCompile]_vars

\* Requests against the registry, dispatched one after another: a request
\* arrives when the one before it is over.
NextDispatch ==
    \/ Register
    \/ startAsync
    \/ Arrive({1})
    \/ Settle
    \/ StatSettled
    \/ ReadSettled
    \/ Retire

SpecDispatch == Init /\ [][NextDispatch]_vars

\* The lifecycle and the live-reload channel.
NextReload ==
    \/ startAsync
    \/ stop
    \/ refreshBrowser
    \/ Connect
    \/ Disconnect

SpecReload == Init /\ [][NextReload]_vars

\* Everything, with requests in flight at the same time.
Next ==
    \/ Register
    \/ startAsync
    \/ stop
    \/ refreshBrowser
    \/ Connect
    \/ Disconnect
    \/ Arrive(Requests)
    \/ Settle
    \/ StatSettled
    \/ ReadSettled
    \/ Retire

Spec == Init /\ [][Next]_vars

\* ------------------------------------------------------------- properties
Positions(rec, ev) == { k \in 1..Len(rec.trace) : rec.trace[k].ev = ev }

ResolverRan(rec) == Positions(rec, "resolver") # {}

MiddlewareSent(rec) == \E k \in Positions(rec, "settle") : rec.trace[k].wrote

Failed(e) == e.ev = "settle" /\ e.out \in {"reject", "throw"}

Stopped(e) == e.ev = "settle" /\ e.out = "complete" /\ ~e.called

Continued(e) == e.ev = "settle" /\ e.out = "complete" /\ e.called

\* Nothing is invoked after position k of the trace.
NothingAfter(rec, k) ==
    \A j \in (k + 1)..Len(rec.trace) : rec.trace[j].ev \notin {"invoke", "resolver"}

\* C1: when the request callback has returned, exactly one of "a middleware
\* left the response sent" and "defaultHandler was invoked" holds, whatever
\* the matched handlers did.
C1_ExactlyOneOutcome ==
    \A r \in Requests :
        req[r].pc = "done" => (MiddlewareSent(req[r]) # ResolverRan(req[r]))

\* C2: after a matched handler throws or rejects, whether or not it called
\* next() first, no later handler is invoked and defaultHandler is not
\* invoked for that request.
C2_FailureHaltsChain ==
    \A r \in Requests :
        \A k \in 1..Len(req[r].trace) :
            Failed(req[r].trace[k]) => NothingAfter(req[r], k)

\* C3: after a matched handler completes without calling next(), dispatch
\* is over: no later handler and no defaultHandler run for that request.
C3_StopEndsDispatch ==
    \A r \in Requests :
        \A k \in 1..Len(req[r].trace) :
            Stopped(req[r].trace[k]) =>
                /\ NothingAfter(req[r], k)
                /\ k = Len(req[r].trace)
                /\ req[r].pc = "done"

\* C3 witness: of two matched handlers the first completed without next(),
\* and the request is over.
C3_Witness ==
    \E r \in Requests :
        /\ Len(req[r].matching) = 2
        /\ Len(req[r].trace) = 2
        /\ Stopped(req[r].trace[2])
        /\ req[r].pc = "done"

\* C4: a request that no handler matches, or all of whose matched handlers
\* called next() and completed, has defaultHandler invoked exactly once, as
\* the step that follows the last handler's completion.
C4_FallthroughRunsResolverOnce ==
    \A r \in Requests :
        LET rec == req[r]
            settled == Positions(rec, "settle")
        IN (/\ rec.pc # "idle"
            /\ Cardinality(settled) = Len(rec.matching)
            /\ \A k \in settled : Continued(rec.trace[k]))
           => /\ Cardinality(Positions(rec, "resolver")) = 1
              /\ Len(rec.trace) = 2 * Len(rec.matching) + 1
              /\ rec.trace[Len(rec.trace)].ev = "resolver"

\* C4 witness: two matched handlers both called next() and completed, and
\* the resolver has answered.
C4_Witness ==
    \E r \in Requests :
        /\ Len(req[r].matching) = 2
        /\ Cardinality(Positions(req[r], "settle")) = 2
        /\ \A k \in Positions(req[r], "settle") : Continued(req[r].trace[k])
        /\ ResolverRan(req[r])
        /\ req[r].pc = "done"

\* A pattern accepts a url when a test of the pattern as compiled succeeds.
Accepts(p, url) == Test([p EXCEPT !.lastIndex = 0], url).ok

AcceptedHandlers(url) ==
    LET hit == SelectSeq(middlewares, LAMBDA x : Accepts(x.pattern, url))
    IN [k \in 1..Len(hit) |-> hit[k].middleware]

\* C5: the handlers selected for a request are exactly the handlers of the
\* entries whose compiled pattern accepts the url, in registration order.
C5_SelectedAreAccepted ==
    [][\A r \in Requests :
          (req[r].pc = "idle" /\ req'[r].pc # "idle")
              => req'[r].matching = AcceptedHandlers(req'[r].url)]_vars

\* C6: the request callback never rejects or throws to the transport layer,
\* whatever the handlers do.
C6_NothingEscapes ==
    \A r \in Requests : req[r].pc # "rejected"

\* C7: the connection handler broadcasts exactly once, on the first client
\* connection ever; connectedBefore turns true then and stays true.
C7_FirstConnectionOnly ==
    /\ connectedBefore = everConnected
    /\ connectionEmits = IF everConnected THEN 1 ELSE 0

\* C7 witness: after a stop and a second start every client is connected,
\* and the connection handler has broadcast once.
C7_Witness ==
    /\ io = 2
    /\ \A c \in Clients : clients[c] = 2
    /\ connectionEmits = 1

\* C8: refreshBrowser completes without error in every lifecycle state.
C8_RefreshNeverThrows ==
    lastEmit.by # "failed"

\* C9: a refreshBrowser call delivers exactly one refresh event to every
\* client connected at the time of the call and none to the others.
C9_EveryConnectedClientGetsOne ==
    lastEmit.by = "application" =>
        \A c \in Clients :
            lastEmit.count[c] = IF c \in lastEmit.connected THEN 1 ELSE 0

\* C10: when defaultHandler has answered a request whose path is not a
\* regular file (missing, or a directory), the answer is the 404 page with
\* content type text/html.
C10_NotARegularFileIs404 ==
    \A r \in Requests :
        (/\ req[r].pc = "done"
         /\ ResolverRan(req[r])
         /\ FileKind(Pathname(req[r].url)) # "file")
        => /\ req[r].res.statusCode = 404
           /\ req[r].res.contentType = "text/html"
           /\ req[r].res.body = "notfound"

\* C11: defaultHandler never throws to its caller: an exception in any of
\* its steps, from parsing the url on, ends in the 500 page.
C11_ResolverNeverThrows ==
    \A r \in Requests :
        (ResolverRan(req[r]) /\ ~MiddlewareSent(req[r])) => req[r].pc # "rejected"

\* C12: a registration whose route spec does not compile raises in the call
\* and appends nothing: the registry is as before the call, and every entry
\* of the registry holds a compiled pattern.
C12_InvalidRouteAppendsNothing ==
    /\ [](\A k \in 1..Len(middlewares) : middlewares[k].pattern.ok)
    /\ [][(thrown' = "SyntaxError" /\ req' = req) => middlewares' = middlewares]_vars
    /\ [][Len(middlewares') > Len(middlewares) => thrown' = "none"]_vars

\* C12 witness: a registration has failed on a registry that holds an entry.
C12_Witness ==
    /\ thrown = "SyntaxError"
    /\ Len(middlewares) = 1

\* C13: a server constructed without a config object has the defaults of
\* one constructed with an empty config object, and startAsync completes.
C13_DefaultsWithoutConfig ==
    ~config.present =>
        /\ host = "localhost"
        /\ port = DefaultPort
        /\ directory = "site"
        /\ mimeTypes = [defined |-> TRUE, list |-> <<>>]
        /\ thrown # "TypeError"

FirstAt(s, x) == Min({ k \in 1..Len(s) : s[k] = x })

\* out holds every letter of in once, ordered by first occurrence in in.
KeptOnceInOrder(out, in) ==
    /\ \A p, q \in 1..Len(out) : out[p] = out[q] => p = q
    /\ { out[p] : p \in 1..Len(out) } = { in[p] : p \in 1..Len(in) }
    /\ \A p, q \in 1..Len(out) : p < q => FirstAt(in, out[p]) < FirstAt(in, out[q])

\* C15: a delimited route spec compiles with its flag letters kept once each,
\* at first occurrence and in order, so no registration of such a spec
\* fails; flags 'gig' give the same pattern as flags 'gi'.
C15_FlagsDeduplicated ==
    /\ thrown = "none"
    /\ \A k \in 1..Len(middlewares) : \A f \in FlagSeqs :
           middlewares[k].route = Flagged(f) =>
               /\ middlewares[k].pattern.body = <<"a">>
               /\ KeptOnceInOrder(middlewares[k].pattern.flags, f)
    /\ \A j, k \in 1..Len(middlewares) :
           (/\ middlewares[j].route = Flagged(<<"g", "i", "g">>)
            /\ middlewares[k].route = Flagged(<<"g", "i">>))
           => middlewares[j].pattern = middlewares[k].pattern

\* C15 witness: specs with flags 'gig' and 'gi' are both registered.
C15_Witness ==
    \E j, k \in 1..Len(middlewares) :
        /\ middlewares[j].route = Flagged(<<"g", "i", "g">>)
        /\ middlewares[k].route = Flagged(<<"g", "i">>)
        /\ middlewares[j].pattern.flags = <<"g", "i">>

\* The extensions the first addition of a type brings, none without one.
AddedExtensions(type) ==
    LET adds == { j \in 1..Len(config.additionalMimeTypes) :
                    config.additionalMimeTypes[j].type = type }
    IN IF adds = {} THEN <<>> ELSE config.additionalMimeTypes[Min(adds)].extensions

\* C16: once started, the MIME table has one entry per base entry, in base
\* order, each with the base extensions followed by those of the addition
\* of the same type; additions of other types are absent.
C16_MergedTable ==
    server # "undefined" =>
        /\ Len(mimeTypes.list) = Len(BaseMimeTypes)
        /\ \A k \in 1..Len(BaseMimeTypes) :
               /\ mimeTypes.list[k].type = BaseMimeTypes[k].type
               /\ mimeTypes.list[k].extensions =
                      BaseMimeTypes[k].extensions \o AddedExtensions(BaseMimeTypes[k].type)

\* C17: a registry entry never changes once created: no step, dispatch of a
\* request included, alters the matcher of an entry.
C17_EntriesImmutable ==
    [][\A k \in 1..Len(middlewares) : middlewares'[k] = middlewares[k]]_vars

\* C18: within one request the matched handlers are invoked one at a time
\* in registration order: each invocation is followed by the settlement of
\* the same handler before anything else is invoked, the n-th invocation is
\* of the n-th matched handler, and defaultHandler is invoked last, never
\* while a handler is still running.
C18_OneAtATime ==
    \A r \in Requests :
        LET t == req[r].trace
            m == req[r].matching
        IN /\ \A a, b \in 1..Len(m) : a < b => m[a] < m[b]
           /\ \A j \in 1..Len(t) :
                  /\ t[j].ev = "invoke" =>
                         /\ j % 2 = 1
                         /\ (j + 1) \div 2 <= Len(m)
                         /\ t[j].h = m[(j + 1) \div 2]
                  /\ t[j].ev = "settle" =>
                         /\ j % 2 = 0
                         /\ t[j - 1].ev = "invoke"
                         /\ t[j - 1].h = t[j].h
                  /\ t[j].ev = "resolver" => (j = Len(t) /\ j % 2 = 1)

\* C18 witness: the first of two matched handlers failed, the second was
\* invoked after that, and defaultHandler after the second had settled.
C18_Witness ==
    \E r \in Requests :
        /\ Len(req[r].matching) = 2
        /\ Len(req[r].trace) = 5
        /\ req[r].trace[2].out = "reject"
        /\ req[r].trace[3].ev = "invoke"
        /\ req[r].trace[5].ev = "resolver"

\* defaultHandler has read an html file into which socketInjection cannot
\* inject, and is over.
InjectionFailed(rec) ==
    /\ rec.pc \in {"done", "rejected"}
    /\ ResolverRan(rec)
    /\ UrlParses(rec.url)
    /\ FileKind(Pathname(rec.url)) = "file"
    /\ MimeOf(Extname(Pathname(rec.url))) = "text/html"
    /\ ~Injectable(Pathname(rec.url))

\* C19: when the file is html and the injector fails, the failure is not
\* fatal: the request is answered with status 200, the resolved content
\* type and the bytes of the file as read, and the response is ended
\* exactly once.
C19_InjectionFailureFallsBack ==
    \A r \in Requests :
        InjectionFailed(req[r]) =>
            /\ req[r].pc = "done"
            /\ req[r].res.statusCode = 200
            /\ req[r].res.contentType = "text/html"
            /\ req[r].res.body = "file"
            /\ req[r].res.ends = 1

\* The request was answered: its callback returned, and defaultHandler, if
\* it ran, ended the response.
Answered(rec) == rec.pc = "done" /\ (ResolverRan(rec) => rec.res.ended)

\* C14: whatever the other requests in flight do, a hung middleware of
\* another request included, a request that has arrived is eventually
\* answered unless a middleware of its own hangs.
C14_HangStallsOnlyItself ==
    \A r \in Requests :
        [](req[r].pc # "idle" => <>(req[r].pc = "hung" \/ Answered(req[r])))

\* C20: while a request is in flight its selected handlers do not change,
\* and a step that registers a middleware or belongs to another request
\* leaves everything of the request, its continuation flag included, as it
\* was.
C20_FixedAtDispatch ==
    [][\A r \in Requests :
          req[r].pc # "idle" =>
              /\ req'[r].matching = req[r].matching
              /\ (\/ Len(middlewares') # Len(middlewares)
                  \/ \E q \in Requests \ {r} : req'[q] # req[q])
                 => req'[r] = req[r]]_vars

\* C20 witness: a request is suspended at an await with the handlers it
\* selected when it arrived, a middleware was registered since, and another
\* request was dispatched with the longer selection.
C20_Witness ==
    \E r, q \in Requests :
        /\ req[r].pc \in {"handler", "stat", "read"}
        /\ Len(req[r].matching) < Len(middlewares)
        /\ req[q].pc # "idle"
        /\ Len(req[q].matching) = Len(middlewares)

====
